---- MODULE Spec2Model ----
(***************************************************************************)
(* askup (src/app.py): a Flask question-and-answer forum over MongoDB.     *)
(* The model covers the session routes (register, login, logout), the two  *)
(* routes that create votable documents (ask_question, post_answer) and    *)
(* the vote route, whose read-modify-write of `votes` / `voted_by` is the  *)
(* only non-trivial logic of the program.                                  *)
(*                                                                         *)
(* Documents keep only the fields the vote route reads or writes           *)
(* (`votes`, `voted_by`); a user document keeps username, email, password. *)
(* An ObjectId is a record [coll, n]; its string form (what the URL and    *)
(* the session cookie carry) is the tuple <<coll, n>>.                     *)
(***************************************************************************)
EXTENDS Integers, Sequences, FiniteSets, TLC

VARIABLES
    users,      \* users_collection: sequence of user documents, _id by position
    session,    \* per browser: <<>> (no 'user_id' key) or the stored str(user_id)
    questions,  \* questions_collection: sequence of documents, _id by position
    answers,    \* answers_collection: sequence of documents, _id by position
    req         \* per server worker: the vote request it handles / last answered

vars == <<users, session, questions, answers, req>>

(* ------------------------------ bounds -------------------------------- *)

\* Documents inserted into questions and answers together.
MaxItems == 2
\* The same, in the specifications with split reads and writes or with
\* arbitrary vote types.
MaxItemsSmall == 1
\* Server workers handling vote requests at the same time.
MaxInFlight == 2
\* |votes| beyond which no further vote is taken (arbitrary vote types only).
MaxTally == 3

Clients == {"c1", "c2"}
OneClient == {"c1"}
SeqWorkers == {1}
ConcWorkers == 1 .. MaxInFlight
Workers == SeqWorkers \cup ConcWorkers

RegisterForms ==
    { [username |-> "alice", email |-> "a@x", password |-> "pa"],
      [username |-> "bob",   email |-> "b@x", password |-> "pb"],
      [username |-> "bob",   email |-> "a@x", password |-> "pb"] }
LoginForms ==
    { [username |-> "alice", password |-> "pa"],
      [username |-> "bob",   password |-> "pb"],
      [username |-> "bob",   password |-> "pa"] }

VoteTypes == {"up", "down"}
AnyVoteTypes == VoteTypes \cup {"sideways"}
ItemTypes == {"question", "answer", "comment"}

(* ----------------------------- ObjectId ------------------------------- *)

\* str(oid): the 24-hex-digit string of an ObjectId.
OidStr(oid) == <<oid.coll, oid.n>>
\* ObjectId.is_valid(s)
IsValidOid(s) == Len(s) = 2
\* ObjectId(s), defined for valid strings (the constructor raises otherwise).
ObjectId(s) == [coll |-> s[1], n |-> s[2]]
InvalidIdStr == <<"zz">>
ItemIdStrs(bound) ==
    { <<coll, n>> : coll \in {"questions", "answers"}, n \in 1 .. bound }
        \cup {InvalidIdStr}

(* ---------------------------- collections ----------------------------- *)

\* generate_password_hash / check_password_hash
PasswordHash(password) == <<"hash", password>>
CheckPasswordHash(hash, password) == hash = PasswordHash(password)

\* users_collection.find_one({'$or': [{'username': u}, {'email': e}]}) is not None
UserExists(username, email) ==
    \E i \in 1 .. Len(users) :
        users[i].username = username \/ users[i].email = email

\* users_collection.find_one({'username': u}): index of the document, 0 for None
FindUser(username) ==
    IF \E i \in 1 .. Len(users) : users[i].username = username
    THEN CHOOSE i \in 1 .. Len(users) : users[i].username = username
    ELSE 0

\* The document a route inserts for a new question or answer.
NewItem == [votes |-> 0, voted_by |-> <<>>]

\* A vote route that always takes the questions collection.
SelectCollectionQuestions(item_type) == "questions"

\* questions_collection if item_type == 'question' else answers_collection
SelectCollection(item_type) ==
    IF item_type = "question" THEN "questions" ELSE "answers"

Docs(coll) == IF coll = "questions" THEN questions ELSE answers

\* collection.find_one({'_id': oid}): <<doc>> when found, <<>> for None
FindOne(coll, oid) ==
    IF oid.coll = coll /\ oid.n \in 1 .. Len(Docs(coll))
    THEN <<Docs(coll)[oid.n]>>
    ELSE <<>>

\* An update with an empty filter: update_many({}, {'$set': ...}).
UpdateMany(docs, oid, v, vb) ==
    [i \in 1 .. Len(docs) |-> [votes |-> v, voted_by |-> vb]]

\* collection.update_one({'_id': oid}, {'$set': {'votes': v, 'voted_by': vb}}),
\* as the new contents of the collection `docs`.
UpdateOne(docs, oid, v, vb) ==
    IF oid.n \in 1 .. Len(docs)
    THEN [docs EXCEPT ![oid.n] = [votes |-> v, voted_by |-> vb]]
    ELSE docs

(* ------------------------------ sessions ------------------------------ *)

NoSession == <<>>
\* A decorator that lets every request through.
LoginNotRequired(sess) == TRUE

\* 'user_id' in session
LoginRequired(sess) == sess # NoSession

(* ------------------------------ vote ---------------------------------- *)

\* next((vote for vote in voted_by if vote['user_id'] == user_id), None):
\* the position of the first match, 0 for None.
UserVote(voted_by, user_id) ==
    IF \E i \in 1 .. Len(voted_by) : voted_by[i].user_id = user_id
    THEN CHOOSE i \in 1 .. Len(voted_by) :
            /\ voted_by[i].user_id = user_id
            /\ \A j \in 1 .. (i - 1) : voted_by[j].user_id # user_id
    ELSE 0

\* A vote route that forgets to drop the entry on a repeated vote.
RemoveVotesKept(voted_by, user_id) == voted_by

\* [vote for vote in voted_by if vote['user_id'] != user_id]
RemoveVotes(voted_by, user_id) ==
    LET Keep(v) == v.user_id # user_id IN SelectSeq(voted_by, Keep)

\* A vote route that adds the contribution again on a repeated vote.
ToggleDeltaRepeated(vote_type) == IF vote_type = "up" THEN 1 ELSE -1

\* current_votes -= 1 if vote_type == 'up' else -1
ToggleDelta(vote_type) == IF vote_type = "up" THEN -1 ELSE 1
\* A vote route that counts a changed vote as a new one.
FlipDeltaSingle(vote_type) == IF vote_type = "up" THEN 1 ELSE -1

\* current_votes += 2 if vote_type == 'up' else -2
FlipDelta(vote_type) == IF vote_type = "up" THEN 2 ELSE -2
\* current_votes += 1 if vote_type == 'up' else -1
NewDelta(vote_type) == IF vote_type = "up" THEN 1 ELSE -1

\* A vote route that changes a vote by dropping the entry and appending the
\* new one.
CastVoteReappend(item, user_id, vote_type) ==
    LET voted_by == item.voted_by
        i == UserVote(voted_by, user_id)
        entry == [user_id |-> user_id, type |-> vote_type]
    IN  IF i # 0
        THEN IF voted_by[i].type = vote_type
             THEN [votes    |-> item.votes + ToggleDelta(vote_type),
                   voted_by |-> RemoveVotes(voted_by, user_id)]
             ELSE [votes    |-> item.votes + FlipDelta(vote_type),
                   voted_by |-> Append(RemoveVotes(voted_by, user_id), entry)]
        ELSE [votes    |-> item.votes + NewDelta(vote_type),
              voted_by |-> Append(voted_by, entry)]

\* The body of vote between the read and the write: the new votes and
\* voted_by computed from the document that was read.
CastVote(item, user_id, vote_type) ==
    LET voted_by == item.voted_by
        i == UserVote(voted_by, user_id)
    IN  IF i # 0
        THEN IF voted_by[i].type = vote_type
             THEN [votes    |-> item.votes + ToggleDelta(vote_type),
                   voted_by |-> RemoveVotes(voted_by, user_id)]
             ELSE [votes    |-> item.votes + FlipDelta(vote_type),
                   voted_by |-> [voted_by EXCEPT ![i].type = vote_type]]
        ELSE [votes    |-> item.votes + NewDelta(vote_type),
              voted_by |-> Append(voted_by,
                                  [user_id |-> user_id, type |-> vote_type])]

\* A worker's record. pc: "idle" (nothing handled yet), "read" (the document
\* is read, the write is still to come), "done" (answered with `status`;
\* `votes` is the tally of a 200 answer).
NoOid == [coll |-> "", n |-> 0]
IdleReq ==
    [pc |-> "idle", status |-> 0, votes |-> 0, user_id |-> NoOid,
     coll |-> "", oid |-> NoOid, vote_type |-> "", item |-> NewItem]
Answered(status) == [IdleReq EXCEPT !.pc = "done", !.status = status]

\* vote, from the decorator to the end of the computation on the document
\* read: the worker's record after it. ObjectId(item_id) raises on a malformed
\* id and session['user_id'] raises without the key (which the decorator
\* excludes); the except clause answers both with 500.
VoteRead(sess, item_type, item_id, vote_type) ==
    IF ~LoginRequired(sess) THEN Answered(302)
    ELSE IF ~IsValidOid(item_id) THEN Answered(500)
    ELSE LET coll == SelectCollection(item_type)
             oid  == ObjectId(item_id)
             item == FindOne(coll, oid)
         IN  IF item = <<>> THEN Answered(404)
             ELSE IF sess = NoSession THEN Answered(500)
             ELSE [IdleReq EXCEPT !.pc = "read",
                                  !.user_id = ObjectId(sess),
                                  !.coll = coll, !.oid = oid,
                                  !.vote_type = vote_type,
                                  !.item = item[1]]

\* The record of a worker that has written and answered.
VoteDone(r) ==
    [r EXCEPT !.pc = "done", !.status = 200,
              !.votes = CastVote(r.item, r.user_id, r.vote_type).votes]

\* A write that sets voted_by and increments votes by the change computed:
\* {'$inc': {'votes': delta}, '$set': {'voted_by': vb}}.
VoteStoreInc(r, coll) ==
    IF r.coll = coll
    THEN LET new == CastVote(r.item, r.user_id, r.vote_type)
             now == Docs(coll)[r.oid.n]
         IN  UpdateOne(Docs(coll), r.oid,
                       now.votes + (new.votes - r.item.votes), new.voted_by)
    ELSE Docs(coll)

\* A write that reads the document again and applies the vote to it.
VoteStoreReread(r, coll) ==
    IF r.coll = coll
    THEN LET new == CastVote(Docs(coll)[r.oid.n], r.user_id, r.vote_type)
         IN  UpdateOne(Docs(coll), r.oid, new.votes, new.voted_by)
    ELSE Docs(coll)

\* The collection `coll` after the update_one of the request r.
VoteStore(r, coll) ==
    IF r.coll = coll
    THEN LET new == CastVote(r.item, r.user_id, r.vote_type)
         IN  UpdateOne(Docs(coll), r.oid, new.votes, new.voted_by)
    ELSE Docs(coll)

\* The bound MaxTally on the tally a vote starts from.
TallyInRange(r) == r.item.votes \in (0 - MaxTally) .. MaxTally

(* ------------------------------ actions ------------------------------- *)

Init ==
    /\ users = <<>>
    /\ session = [c \in Clients |-> NoSession]
    /\ questions = <<>>
    /\ answers = <<>>
    /\ req = [w \in Workers |-> IdleReq]

\* POST /register
Register(c, form) ==
    /\ IF UserExists(form.username, form.email)
       THEN UNCHANGED <<users, session>>
       ELSE /\ users' = Append(users,
                    [username |-> form.username, email |-> form.email,
                     password |-> PasswordHash(form.password)])
            /\ session' = [session EXCEPT ![c] =
                    OidStr([coll |-> "users", n |-> Len(users) + 1])]
    /\ UNCHANGED <<questions, answers, req>>

\* POST /login
Login(c, form) ==
    /\ LET i == FindUser(form.username)
       IN  IF i # 0 /\ CheckPasswordHash(users[i].password, form.password)
           THEN session' = [session EXCEPT ![c] =
                    OidStr([coll |-> "users", n |-> i])]
           ELSE UNCHANGED session
    /\ UNCHANGED <<users, questions, answers, req>>

\* GET /logout
Logout(c) ==
    /\ session' = [session EXCEPT ![c] = NoSession]
    /\ UNCHANGED <<users, questions, answers, req>>

\* POST /ask
AskQuestion(c, bound) ==
    /\ Len(questions) + Len(answers) < bound
    /\ IF LoginRequired(session[c])
       THEN questions' = Append(questions, NewItem)
       ELSE UNCHANGED questions
    /\ UNCHANGED <<users, session, answers, req>>

\* POST /answer/<question_id>
PostAnswer(c, question_id, bound) ==
    /\ Len(questions) + Len(answers) < bound
    /\ IF LoginRequired(session[c]) /\ IsValidOid(question_id)
       THEN answers' = Append(answers, NewItem)
       ELSE UNCHANGED answers
    /\ UNCHANGED <<users, session, questions, req>>

\* GET /vote/<item_type>/<item_id>/<vote_type>, handled from start to end with
\* no other request in between.
Vote(w, c, item_type, item_id, vote_type) ==
    /\ req[w].pc # "read"
    /\ LET r == VoteRead(session[c], item_type, item_id, vote_type)
       IN  IF r.pc = "read"
           THEN /\ TallyInRange(r)
                /\ questions' = VoteStore(r, "questions")
                /\ answers' = VoteStore(r, "answers")
                /\ req' = [req EXCEPT ![w] = VoteDone(r)]
           ELSE /\ req' = [req EXCEPT ![w] = r]
                /\ UNCHANGED <<questions, answers>>
    /\ UNCHANGED <<users, session>>

\* The same route up to and including find_one and the computation on the
\* document read.
VoteBegin(w, c, item_type, item_id, vote_type) ==
    /\ req[w].pc # "read"
    /\ req' = [req EXCEPT ![w] =
                  VoteRead(session[c], item_type, item_id, vote_type)]
    /\ UNCHANGED <<users, session, questions, answers>>

\* The same route from update_one to the response.
VoteWrite(w) ==
    /\ req[w].pc = "read"
    /\ questions' = VoteStore(req[w], "questions")
    /\ answers' = VoteStore(req[w], "answers")
    /\ req' = [req EXCEPT ![w] = VoteDone(req[w])]
    /\ UNCHANGED <<users, session>>

(* --------------------------- specifications --------------------------- *)

\* One request at a time, vote types "up" and "down"; one browser (users
\* change by logout and login).
Next ==
    \/ \E c \in OneClient, f \in RegisterForms : Register(c, f)
    \/ \E c \in OneClient, f \in LoginForms : Login(c, f)
    \/ \E c \in OneClient : Logout(c)
    \/ \E c \in OneClient : AskQuestion(c, MaxItems)
    \/ \E c \in OneClient, q \in ItemIdStrs(MaxItems) : PostAnswer(c, q, MaxItems)
    \/ \E w \in SeqWorkers, c \in OneClient, it \in ItemTypes,
          id \in ItemIdStrs(MaxItems), vt \in VoteTypes :
            Vote(w, c, it, id, vt)

Spec == Init /\ [][Next]_vars

\* One request at a time, any vote type in the URL; two browsers.
NextAnyType ==
    \/ \E c \in Clients, f \in RegisterForms : Register(c, f)
    \/ \E c \in Clients, f \in LoginForms : Login(c, f)
    \/ \E c \in Clients : Logout(c)
    \/ \E c \in Clients : AskQuestion(c, MaxItemsSmall)
    \/ \E c \in Clients, q \in ItemIdStrs(MaxItemsSmall) :
            PostAnswer(c, q, MaxItemsSmall)
    \/ \E w \in SeqWorkers, c \in Clients, it \in ItemTypes,
          id \in ItemIdStrs(MaxItemsSmall), vt \in AnyVoteTypes :
            Vote(w, c, it, id, vt)

SpecAnyType == Init /\ [][NextAnyType]_vars

\* Vote requests of several workers interleave between find_one and
\* update_one; vote types "up" and "down". One browser sends the requests
\* (users change by logout and login), several workers handle them.
NextConc ==
    \/ \E c \in OneClient, f \in RegisterForms : Register(c, f)
    \/ \E c \in OneClient, f \in LoginForms : Login(c, f)
    \/ \E c \in OneClient : Logout(c)
    \/ \E c \in OneClient : AskQuestion(c, MaxItemsSmall)
    \/ \E c \in OneClient, q \in ItemIdStrs(MaxItemsSmall) :
            PostAnswer(c, q, MaxItemsSmall)
    \/ \E w \in ConcWorkers, c \in OneClient, it \in ItemTypes,
          id \in ItemIdStrs(MaxItemsSmall), vt \in VoteTypes :
            VoteBegin(w, c, it, id, vt)
    \/ \E w \in ConcWorkers : VoteWrite(w)

SpecConc == Init /\ [][NextConc]_vars

(* ----------------------- reading a stored state ----------------------- *)

AllItems ==
    { questions[i] : i \in 1 .. Len(questions) }
        \cup { answers[i] : i \in 1 .. Len(answers) }

UserIds == { [coll |-> "users", n |-> i] : i \in 1 .. Len(users) }

\* The document a read or answered request is about, as stored now.
Stored(r) == Docs(r.coll)[r.oid.n]

EntriesOf(voted_by, u) ==
    LET Mine(v) == v.user_id = u IN SelectSeq(voted_by, Mine)
EntriesOfOthers(voted_by, u) ==
    LET NotMine(v) == v.user_id # u IN SelectSeq(voted_by, NotMine)
CountType(voted_by, t) ==
    LET OfType(v) == v.type = t IN Len(SelectSeq(voted_by, OfType))

OneEntryPerUser(voted_by) ==
    \A i, j \in 1 .. Len(voted_by) :
        voted_by[i].user_id = voted_by[j].user_id => i = j

TallyMatches(d) ==
    d.votes = CountType(d.voted_by, "up") - CountType(d.voted_by, "down")

\* The state of the pair (item, user), read off the user's entries.
VoteState(voted_by, u) ==
    LET es == EntriesOf(voted_by, u)
    IN  IF Len(es) = 0 THEN "NoVote"
        ELSE IF Len(es) > 1 THEN "Invalid"
        ELSE IF es[1].type = "up" THEN "Up"
        ELSE IF es[1].type = "down" THEN "Down"
        ELSE "Invalid"

\* The automaton of the specification.
Automaton(state, vote_type) ==
    CASE state = "NoVote" /\ vote_type = "up"   -> "Up"
      [] state = "NoVote" /\ vote_type = "down" -> "Down"
      [] state = "Up"     /\ vote_type = "up"   -> "NoVote"
      [] state = "Down"   /\ vote_type = "down" -> "NoVote"
      [] state = "Up"     /\ vote_type = "down" -> "Down"
      [] state = "Down"   /\ vote_type = "up"   -> "Up"
      [] OTHER -> "Undefined"

Opposite(vote_type) == IF vote_type = "up" THEN "down" ELSE "up"
Contribution(vote_type) == IF vote_type = "up" THEN 1 ELSE -1

\* The worker w has just answered 200: its record holds the document as it
\* was read (r.item), and with one request at a time the store holds the
\* document as it was written.
Voted(w) == req[w].pc = "done" /\ req[w].status = 200

(* ------------------------------- C1 ----------------------------------- *)

\* C1: with one request at a time and vote types "up"/"down", every stored
\* item has at most one voted_by entry per user, and its votes equal the
\* number of "up" entries minus the number of "down" entries.
C1_TallyMatchesVoters ==
    \A d \in AllItems : OneEntryPerUser(d.voted_by) /\ TallyMatches(d)

\* Two users have voted on one item, one up and one down, the second of
\* them by a flip.
C1_Witness ==
    \E w \in SeqWorkers :
        /\ Voted(w)
        /\ VoteState(req[w].item.voted_by, req[w].user_id)
                = Automaton("NoVote", Opposite(req[w].vote_type))
        /\ Len(Stored(req[w]).voted_by) = 2
        /\ Stored(req[w]).votes = 0

(* ------------------------------- C4 ----------------------------------- *)

\* C4: every (item, user) pair is in NoVote, Up or Down; a vote that was
\* just answered took the pair from its state in the document read to the
\* automaton's successor in the document stored; and from every stored
\* state each of the two inputs of each user leads to that successor.
C4_VoteAutomaton ==
    /\ \A d \in AllItems, u \in UserIds :
          /\ VoteState(d.voted_by, u) \in {"NoVote", "Up", "Down"}
          /\ \A vt \in VoteTypes :
                VoteState(CastVote(d, u, vt).voted_by, u)
                    = Automaton(VoteState(d.voted_by, u), vt)
    /\ \A w \in SeqWorkers :
          Voted(w) =>
              VoteState(Stored(req[w]).voted_by, req[w].user_id)
                  = Automaton(VoteState(req[w].item.voted_by, req[w].user_id),
                              req[w].vote_type)

\* A vote has just taken a pair from Up to NoVote, on an item that holds
\* another user's vote.
C4_Witness ==
    \E w \in SeqWorkers :
        /\ Voted(w)
        /\ req[w].vote_type = "up"
        /\ VoteState(req[w].item.voted_by, req[w].user_id) = "Up"
        /\ VoteState(Stored(req[w]).voted_by, req[w].user_id) = "NoVote"
        /\ Len(Stored(req[w]).voted_by) = 1

(* ------------------------------- C5 ----------------------------------- *)

\* C5: (first vote) after a vote by a user who had no entry, the same vote
\* again, computed on the document now stored, gives the tally of the
\* document read by the first vote and a voted_by with no entry of the user;
\* (second vote) a vote in the direction of the user's entry stores a
\* voted_by with no entry of the user and takes the entry's contribution
\* back from the tally.
C5_ToggleOffRoundTrip ==
    \A w \in SeqWorkers :
        Voted(w) =>
            LET r    == req[w]
                pre  == r.item
                post == Stored(r)
            IN  /\ VoteState(pre.voted_by, r.user_id) = "NoVote" =>
                      LET again == CastVote(post, r.user_id, r.vote_type)
                      IN  /\ again.votes = pre.votes
                          /\ EntriesOf(again.voted_by, r.user_id) = <<>>
                          /\ again.voted_by = pre.voted_by
                /\ VoteState(pre.voted_by, r.user_id)
                        = Automaton("NoVote", r.vote_type) =>
                      /\ post.votes = pre.votes - Contribution(r.vote_type)
                      /\ EntriesOf(post.voted_by, r.user_id) = <<>>

\* The second of two "down" votes has just been answered: the tally is back
\* from -1 to 0 and the voter list is empty again.
C5_Witness ==
    \E w \in SeqWorkers :
        /\ Voted(w)
        /\ req[w].vote_type = "down"
        /\ req[w].item = [votes |-> -1, voted_by |->
                            <<[user_id |-> req[w].user_id, type |-> "down"]>>]
        /\ Stored(req[w]) = NewItem
        /\ req[w].votes = 0

(* ------------------------------- C6 ----------------------------------- *)

\* C6: (flip) a vote against the direction of the user's entry changes the
\* tally by +2 for "up" and -2 for "down" and changes only the type of that
\* entry, in place; (two votes) after a vote by a user who had no entry, the
\* opposite vote, computed on the document now stored, nets the opposite
\* vote's own contribution on the tally read by the first vote and leaves
\* the user in the opposite state.
C6_Flip ==
    \A w \in SeqWorkers :
        Voted(w) =>
            LET r    == req[w]
                pre  == r.item
                post == Stored(r)
                i    == UserVote(pre.voted_by, r.user_id)
            IN  /\ VoteState(pre.voted_by, r.user_id)
                        = Automaton("NoVote", Opposite(r.vote_type)) =>
                      /\ post.votes = pre.votes + 2 * Contribution(r.vote_type)
                      /\ Len(EntriesOf(post.voted_by, r.user_id)) = 1
                      /\ Len(post.voted_by) = Len(pre.voted_by)
                      /\ post.voted_by[i] =
                            [user_id |-> r.user_id, type |-> r.vote_type]
                      /\ \A j \in 1 .. Len(pre.voted_by) :
                            j # i => post.voted_by[j] = pre.voted_by[j]
                /\ VoteState(pre.voted_by, r.user_id) = "NoVote" =>
                      LET flip == CastVote(post, r.user_id,
                                           Opposite(r.vote_type))
                      IN  /\ flip.votes = pre.votes
                                + Contribution(Opposite(r.vote_type))
                          /\ VoteState(flip.voted_by, r.user_id)
                                = Automaton("NoVote", Opposite(r.vote_type))
                          /\ Len(EntriesOf(flip.voted_by, r.user_id)) = 1

\* The scenario of the specification: A up, B down, then A down has just
\* been answered; votes = -2 and voted_by = [(A, down), (B, down)].
C6_Witness ==
    \E w \in SeqWorkers, a, b \in UserIds :
        /\ Voted(w)
        /\ a # b
        /\ req[w].user_id = a
        /\ req[w].vote_type = "down"
        /\ req[w].item = [votes |-> 0, voted_by |->
                            <<[user_id |-> a, type |-> "up"],
                              [user_id |-> b, type |-> "down"]>>]
        /\ Stored(req[w]) = [votes |-> -2, voted_by |->
                            <<[user_id |-> a, type |-> "down"],
                              [user_id |-> b, type |-> "down"]>>]
        /\ req[w].votes = -2

(* ------------------------------- C3 ----------------------------------- *)

\* The state of the pair with every type other than "up" read as Down.
NonUpAsDown(voted_by, u) ==
    LET es == EntriesOf(voted_by, u)
    IN  IF Len(es) = 0 THEN "NoVote"
        ELSE IF es[1].type = "up" THEN "Up" ELSE "Down"

\* C3: a vote whose type is not "up" leaves the tally and the state of the
\* pair that a "down" vote on the same document would have left.
C3_NonUpCastAsDown ==
    \A w \in SeqWorkers :
        (Voted(w) /\ req[w].vote_type # "up") =>
            LET r      == req[w]
                post   == Stored(r)
                asDown == CastVote(r.item, r.user_id, "down")
            IN  /\ post.votes = asDown.votes
                /\ NonUpAsDown(post.voted_by, r.user_id)
                      = NonUpAsDown(asDown.voted_by, r.user_id)

(* ------------------------------- C7 ----------------------------------- *)

\* No document of the store that item_type selects has the id item_id.
NoItemWithId(item_type, item_id) ==
    IF item_type = "question"
    THEN ~ \E n \in 1 .. Len(questions) : item_id = <<"questions", n>>
    ELSE ~ \E n \in 1 .. Len(answers) : item_id = <<"answers", n>>

\* C7, as claimed: a vote of a logged-in user on an id with no item in the
\* selected store is answered 404 and writes nothing.
C7_MissingItemIsNotFound ==
    [][ \A w \in SeqWorkers, c \in Clients, it \in ItemTypes,
           id \in ItemIdStrs(MaxItemsSmall), vt \in AnyVoteTypes :
          ( /\ session[c] # NoSession
            /\ NoItemWithId(it, id)
            /\ Vote(w, c, it, id, vt) )
          => /\ req'[w] = Answered(404)
             /\ questions' = questions
             /\ answers' = answers ]_vars

\* C7, amended: such a vote writes nothing; it is answered 404 when the id
\* is a well-formed ObjectId and 500 when it is not.
C7_MissingItemWritesNothing ==
    [][ \A w \in SeqWorkers, c \in Clients, it \in ItemTypes,
           id \in ItemIdStrs(MaxItemsSmall), vt \in AnyVoteTypes :
          ( /\ session[c] # NoSession
            /\ NoItemWithId(it, id)
            /\ Vote(w, c, it, id, vt) )
          => /\ req'[w] = Answered(IF id = InvalidIdStr THEN 500 ELSE 404)
             /\ questions' = questions
             /\ answers' = answers ]_vars

\* A vote has just been answered 404 while an item that holds a vote exists.
C7_Witness ==
    \E w \in SeqWorkers :
        /\ req[w] = Answered(404)
        /\ \E c \in Clients : session[c] # NoSession
        /\ \E d \in AllItems : d.voted_by # <<>>

(* ------------------------------- C8 ----------------------------------- *)

\* C8: a vote answered 200 leaves users, sessions, the number of documents
\* and every document but its target as they were; in the target, the
\* entries of the other users keep their types and order, and a first vote
\* is appended after them.
C8_VoteFrame ==
    [][ \A w \in SeqWorkers, c \in OneClient, it \in ItemTypes,
           id \in ItemIdStrs(MaxItems), vt \in VoteTypes :
          (req'[w].status = 200 /\ Vote(w, c, it, id, vt))
          => LET u    == [coll |-> "users", n |-> session[c][2]]
                 coll == IF it = "question" THEN "questions" ELSE "answers"
                 pre  == Docs(coll)[id[2]]
                 post == IF it = "question" THEN questions'[id[2]]
                                            ELSE answers'[id[2]]
             IN  /\ users' = users /\ session' = session
                 /\ Len(questions') = Len(questions)
                 /\ Len(answers') = Len(answers)
                 /\ \A i \in 1 .. Len(questions) :
                       (coll = "questions" /\ i = id[2])
                           \/ questions'[i] = questions[i]
                 /\ \A i \in 1 .. Len(answers) :
                       (coll = "answers" /\ i = id[2])
                           \/ answers'[i] = answers[i]
                 /\ EntriesOfOthers(post.voted_by, u)
                       = EntriesOfOthers(pre.voted_by, u)
                 /\ EntriesOf(pre.voted_by, u) = <<>> =>
                       post.voted_by = Append(pre.voted_by,
                                          [user_id |-> u, type |-> vt])
                 /\ post # pre ]_vars

\* A first vote has just been appended after another user's entry, while a
\* second document of the same collection holds a vote.
C8_Witness ==
    \E w \in SeqWorkers :
        /\ Voted(w)
        /\ Len(req[w].item.voted_by) = 1
        /\ Len(Stored(req[w]).voted_by) = 2
        /\ Stored(req[w]).voted_by[2].user_id = req[w].user_id
        /\ \E i \in 1 .. Len(Docs(req[w].coll)) :
              i # req[w].oid.n /\ Docs(req[w].coll)[i].voted_by # <<>>

(* ------------------------------- C9 ----------------------------------- *)

ItemChanged ==
    \/ \E i \in 1 .. Len(questions) : questions'[i] # questions[i]
    \/ \E i \in 1 .. Len(answers) : answers'[i] # answers[i]

\* C9: a vote request of a browser whose session holds no user id is
\* answered with the redirect to login and writes nothing; a stored item
\* changes only in a vote request of a browser whose session holds the id
\* of a registered user; a session comes to hold an id only by register or
\* login, and holds none after logout.
C9_VoteNeedsLogin ==
    [][ /\ \A w \in SeqWorkers, c \in Clients, it \in ItemTypes,
              id \in ItemIdStrs(MaxItemsSmall), vt \in AnyVoteTypes :
             (session[c] = NoSession /\ Vote(w, c, it, id, vt))
             => /\ req'[w] = Answered(302)
                /\ questions' = questions
                /\ answers' = answers
        /\ ItemChanged =>
             \E w \in SeqWorkers, c \in Clients, it \in ItemTypes,
                id \in ItemIdStrs(MaxItemsSmall), vt \in AnyVoteTypes :
                /\ session[c] \in { OidStr(u) : u \in UserIds }
                /\ Vote(w, c, it, id, vt)
        /\ \A c \in Clients :
             /\ (session'[c] # session[c] /\ session'[c] # NoSession) =>
                    \/ \E f \in RegisterForms : Register(c, f)
                    \/ \E f \in LoginForms : Login(c, f)
             /\ Logout(c) => session'[c] = NoSession ]_vars

\* Users have voted and every browser is logged out; the last vote request
\* was answered with the redirect to login.
C9_Witness ==
    /\ \A c \in Clients : session[c] = NoSession
    /\ \E d \in AllItems : d.voted_by # <<>>
    /\ \E w \in SeqWorkers : req[w] = Answered(302)

(* ------------------------------- C2 ----------------------------------- *)

SameTarget(r1, r2) == r1.coll = r2.coll /\ r1.oid = r2.oid

\* Both workers have answered 200 for the same item after reading the same
\* document, and what is stored is the document read with the vote of w2
\* alone; each was answered with the tally it computed.
Overwritten(w1, w2) ==
    LET r1 == req[w1]
        r2 == req[w2]
    IN  /\ w1 # w2 /\ Voted(w1) /\ Voted(w2)
        /\ SameTarget(r1, r2)
        /\ r1.item = r2.item
        /\ Stored(r2) = CastVote(r2.item, r2.user_id, r2.vote_type)
        /\ r1.votes = CastVote(r1.item, r1.user_id, r1.vote_type).votes
        /\ r2.votes = Stored(r2).votes

\* The same, and what is stored is not what the two votes give one after
\* the other, in either order.
LostUpdate(w1, w2) ==
    LET r1 == req[w1]
        r2 == req[w2]
    IN  /\ Overwritten(w1, w2)
        /\ Stored(r2) #
              CastVote(CastVote(r1.item, r1.user_id, r1.vote_type),
                       r2.user_id, r2.vote_type)
        /\ Stored(r2) #
              CastVote(CastVote(r1.item, r2.user_id, r2.vote_type),
                       r1.user_id, r1.vote_type)

\* w1 has written its vote, which is what is stored; w2 read the document
\* w1 read and has not written yet.
StaleRead(w1, w2) ==
    /\ w1 # w2 /\ Voted(w1) /\ req[w2].pc = "read"
    /\ SameTarget(req[w1], req[w2])
    /\ req[w1].item = req[w2].item
    /\ Stored(req[w1]) =
          CastVote(req[w1].item, req[w1].user_id, req[w1].vote_type)

\* C2: when two requests have read the same document of an item and the
\* first has written, the write of the second is answered 200 and stores
\* the document read with the second vote alone, overwriting the first; with
\* two different users that is a lost update.
C2_LaterWriteOverwrites ==
    [][ \A w1, w2 \in ConcWorkers :
          (StaleRead(w1, w2) /\ req'[w2].pc # "read")
          => /\ Overwritten(w1, w2)'
             /\ req[w1].user_id # req[w2].user_id => LostUpdate(w1, w2)' ]_vars

\* A lost update between the votes of two users.
C2_Witness ==
    \E w1, w2 \in ConcWorkers :
        /\ LostUpdate(w1, w2)
        /\ req[w1].user_id # req[w2].user_id

(* ------------------------------- C10 ---------------------------------- *)

\* C10: with reads and writes of concurrent vote requests interleaved, every
\* stored item, every document a request holds and every result a request
\* is about to write has at most one voted_by entry per user and votes equal
\* to its "up" entries minus its "down" entries.
C10_RaceKeepsTallyInSync ==
    /\ \A d \in AllItems : OneEntryPerUser(d.voted_by) /\ TallyMatches(d)
    /\ \A w \in ConcWorkers :
          req[w].pc = "read" =>
              LET new == CastVote(req[w].item, req[w].user_id,
                                  req[w].vote_type)
              IN  /\ OneEntryPerUser(req[w].item.voted_by)
                  /\ TallyMatches(req[w].item)
                  /\ OneEntryPerUser(new.voted_by) /\ TallyMatches(new)

\* A lost update between two votes of one user: both were answered with the
\* tally 1, and the item holds the one entry and the tally 1.
C10_Witness ==
    \E w1, w2 \in ConcWorkers :
        /\ LostUpdate(w1, w2)
        /\ req[w1].user_id = req[w2].user_id
        /\ req[w1].vote_type = "up" /\ req[w2].vote_type = "up"
        /\ req[w1].votes = 1 /\ req[w2].votes = 1
        /\ Stored(req[w2]).votes = 1
        /\ Len(Stored(req[w2]).voted_by) = 1

====
